---- MODULE Spec2Model ----
(***************************************************************************)
(* Model of Convertors/_CreateMultiCategoryDensityFilterBankData.py: the   *)
(* Summariser class (one pyramid of block levels per chromosome) and the   *)
(* record loop that drives it.                                             *)
(*                                                                         *)
(* Python indices are kept 0-based: a count vector is a function on        *)
(* 0..len(categories)-1.  The Summariser objects ever constructed are kept *)
(* in `heap`; the variable `summariser` is an index into it, 0 for None.   *)
(* Output files are kept in `files`, a function from the paths that exist  *)
(* to the sequence of blocks written to them.                              *)
(*                                                                         *)
(* Model of the credential gate of DQXDbTools.py: CanDo, VerifyCanDo,      *)
(* OpenDatabase and OpenNoDatabase, called by request handlers.  The       *)
(* credential verifier is a function the deployment supplies: its answers  *)
(* are chosen when it is first asked and are the same when asked again.    *)
(***************************************************************************)
EXTENDS Integers, Sequences, FiniteSets, TLC

(* ---------------- input bounds ---------------- *)

\* greatest position a record of the input file carries
MaxPos == 4
\* greatest number of records in the input file
MaxRecords == 3

\* chromosome labels of the input file; "" is the initial currentChromosome
Labels == {"", "chr1"}
\* positions of the input file (-1 is the initial lastpos)
Positions == (0 - 1)..MaxPos
\* greatest blockSizeStart, |blockSizeIncrFactor| and blockSizeMax of the
\* stepwise construction
MaxStart == 10
MaxFactor == 3
MaxBlock == 40
\* number of levels after which the stepwise construction is cut off
MaxLevels == 8
\* greatest number of calls made of the functions of DQXDbTools.py
MaxCalls == 3

\* category values of the input file; "X" is in no catalog
Values == {"A", "X"}
\* the catalogs sys.argv[5] is drawn from
Catalogs == {<<"A", "B">>, <<"A", "_other_">>}

VARIABLES
    argv,                   \* sys.argv[2..4] as integers
    categories,             \* sys.argv[5].split(';'), 1-based sequence of labels
    initBlocksize,          \* the local blocksize of Summariser.__init__ (stepwise construction only)
    stream,                 \* history: the records read from the source file so far
    pc,                     \* position of the script in the record loop
    comps,                  \* the record read last: [chromosome, pos, val]
    linecount,
    currentChromosome,
    summariser,             \* index into heap, 0 for None
    processedChromosomes,
    heap,                   \* the Summariser objects constructed so far
    files,                  \* path -> sequence of blocks written
    raised,                 \* the exception that ended the script, "" for none
    accepted,               \* history: per Summariser, the (pos, val) of the Add calls that returned
    DbCredentialVerifier,   \* the module global of DQXDbTools.py: None or a verifier
    asked,                  \* the answers the verifier has given: [credInfo, operation, granted]
    connections,            \* the MySQLdb connections opened
    results,                \* history: the calls made and what each returned or raised
    calls                   \* number of calls made

vars == <<argv, categories, initBlocksize, stream, pc, comps, linecount,
          currentChromosome, summariser, processedChromosomes, heap, files,
          raised, accepted, DbCredentialVerifier, asked, connections, results, calls>>

\* the state of DQXDbTools.py
dbvars == <<DbCredentialVerifier, asked, connections, results, calls>>
\* the state of the convertor script
scriptvars == <<argv, categories, initBlocksize, stream, pc, comps, linecount,
                currentChromosome, summariser, processedChromosomes, heap, files,
                raised, accepted>>

(* ---------------- configuration (sys.argv) ---------------- *)

blockSizeStart == argv.blockSizeStart
blockSizeIncrFactor == argv.blockSizeIncrFactor
blockSizeMax == argv.blockSizeMax

\* the configuration of the record-loop specification: levels 2 and 4
Argv == [blockSizeStart |-> 2, blockSizeIncrFactor |-> 2, blockSizeMax |-> 4]

(* ---------------- catalog ---------------- *)

CatIdx == 0..(Len(categories) - 1)

\* categorymap = {categories[i]:i for i in range(len(categories))}; the last
\* index wins for a repeated label
InCategorymap(val) == \E i \in CatIdx : categories[i + 1] = val

categorymap(val) ==
    CHOOSE i \in CatIdx : /\ categories[i + 1] = val
                          /\ \A j \in CatIdx : categories[j + 1] = val => j <= i

\* otherCategoryNr as the loop of lines 31-34 is written to leave it: the
\* empty set for None, else {index of '_other_'}.  Line 32 iterates
\* range(categories), which Python rejects for a list; the loop is read as
\* range(len(categories)), the way line 30 iterates.
otherCategoryNr ==
    {i \in CatIdx : /\ categories[i + 1] = "_other_"
                    /\ \A j \in CatIdx : categories[j + 1] = "_other_" => j <= i}

\* [0] * len(categories)
ZeroCounts == [i \in CatIdx |-> 0]

\* DQXEncoder.GetEncoder(encoderInfo).perform: a block is recorded by the
\* count vector it encodes
perform(catcounts) == catcounts

(* ---------------- Summariser ---------------- *)

\* the file name of line 61 without the chromosome
Path_nochromosome(chromosome, blocksize) == <<"", blocksize>>

Path(chromosome, blocksize) == <<chromosome, blocksize>>

\* open(path, 'w'): creates the file or truncates it
OpenForWrite(fs, path) ==
    [p \in (DOMAIN fs) \cup {path} |-> IF p = path THEN <<>> ELSE fs[p]]

\* the level with currentblockend left at the 0 of Level.__init (line 39)
NewLevel_zero(chromosome, blocksize) ==
    [blocksize |-> blocksize,
     currentblockend |-> 0,
     catcounts |-> ZeroCounts,
     outputfile |-> [path |-> Path(chromosome, blocksize), closed |-> FALSE]]

\* one iteration of the while loop of Summariser.__init__
NewLevel(chromosome, blocksize) ==
    [blocksize |-> blocksize,
     currentblockend |-> blocksize,
     catcounts |-> ZeroCounts,
     outputfile |-> [path |-> Path(chromosome, blocksize), closed |-> FALSE]]

\* the while loop of Summariser.__init__: levels built and files opened
RECURSIVE InitLevels(_, _, _, _)
InitLevels(chromosome, blocksize, levels, fs) ==
    IF blocksize <= blockSizeMax
    THEN InitLevels(chromosome, blocksize * blockSizeIncrFactor,
                    Append(levels, NewLevel(chromosome, blocksize)),
                    OpenForWrite(fs, Path(chromosome, blocksize)))
    ELSE [levels |-> levels, files |-> fs]

\* Summariser.__init__
NewSummariser(chromosome, fs) ==
    LET r == InitLevels(chromosome, blockSizeStart, <<>>, fs)
    IN  [obj |-> [chromosome |-> chromosome, lastpos |-> 0 - 1, levels |-> r.levels],
         files |-> r.files]

CloseCurrentBlock(level, fs) ==
    [fs EXCEPT ![level.outputfile.path] = Append(@, perform(level.catcounts))]

\* StartNextBlock without the reset of catcounts
StartNextBlock_keep(level) ==
    [level EXCEPT !.currentblockend = @ + level.blocksize]

StartNextBlock(level) ==
    [level EXCEPT !.currentblockend = @ + level.blocksize,
                  !.catcounts = ZeroCounts]

\* the loop of lines 71-73 with `>` for `>=`
RECURSIVE CloseBlocks_gt(_, _, _)
CloseBlocks_gt(level, fs, pos) ==
    IF pos > level.currentblockend
    THEN CloseBlocks_gt(StartNextBlock(level), CloseCurrentBlock(level, fs), pos)
    ELSE [level |-> level, files |-> fs]

\* the loop of lines 71-73 with `if` for `while`
CloseBlocks_if(level, fs, pos) ==
    IF pos >= level.currentblockend
    THEN [level |-> StartNextBlock(level), files |-> CloseCurrentBlock(level, fs)]
    ELSE [level |-> level, files |-> fs]

\* while pos >= level.currentblockend: CloseCurrentBlock; StartNextBlock
RECURSIVE CloseBlocks(_, _, _)
CloseBlocks(level, fs, pos) ==
    IF pos >= level.currentblockend
    THEN CloseBlocks(StartNextBlock(level), CloseCurrentBlock(level, fs), pos)
    ELSE [level |-> level, files |-> fs]

\* lines 74-78 without the else branch of lines 76-78
CountValue_noother(level, val) ==
    IF InCategorymap(val)
    THEN [level EXCEPT !.catcounts[categorymap(val)] = @ + 1]
    ELSE level

\* lines 74-78 with a value outside the catalog counted at index 0
CountValue_zero(level, val) ==
    IF InCategorymap(val)
    THEN [level EXCEPT !.catcounts[categorymap(val)] = @ + 1]
    ELSE [level EXCEPT !.catcounts[0] = @ + 1]

\* lines 74-78: the increment of the category of val
CountValue(level, val) ==
    IF InCategorymap(val)
    THEN [level EXCEPT !.catcounts[categorymap(val)] = @ + 1]
    ELSE IF otherCategoryNr # {}
         THEN LET o == CHOOSE i \in otherCategoryNr : TRUE
              IN  [level EXCEPT !.catcounts[o] = @ + 1]
         ELSE level

\* the loop of line 70 left after its first iteration
RECURSIVE AddLevels_break(_, _, _, _, _)
AddLevels_break(levels, i, fs, pos, val) ==
    IF i > Len(levels) \/ i > 1
    THEN [levels |-> levels, files |-> fs]
    ELSE LET c == CloseBlocks(levels[i], fs, pos)
         IN  AddLevels_break([levels EXCEPT ![i] = CountValue(c.level, val)],
                             i + 1, c.files, pos, val)

\* the body of `for level in self.levels` of Add, for levels i..len
RECURSIVE AddLevels(_, _, _, _, _)
AddLevels(levels, i, fs, pos, val) ==
    IF i > Len(levels)
    THEN [levels |-> levels, files |-> fs]
    ELSE LET c == CloseBlocks(levels[i], fs, pos)
         IN  AddLevels([levels EXCEPT ![i] = CountValue(c.level, val)],
                       i + 1, c.files, pos, val)

\* Summariser.Add raises at line 69
AddRaises(obj, pos) == pos <= obj.lastpos

\* Summariser.Add when it returns: lastpos is not assigned
Add(obj, fs, pos, val) ==
    LET r == AddLevels(obj.levels, 1, fs, pos, val)
    IN  [obj |-> [obj EXCEPT !.levels = r.levels], files |-> r.files]

\* Finalise that writes the last block only if it holds a count
RECURSIVE FinaliseLevels_skipempty(_, _, _)
FinaliseLevels_skipempty(levels, i, fs) ==
    IF i > Len(levels)
    THEN [levels |-> levels, files |-> fs]
    ELSE FinaliseLevels_skipempty([levels EXCEPT ![i].outputfile.closed = TRUE], i + 1,
                                  IF levels[i].catcounts = ZeroCounts
                                  THEN fs ELSE CloseCurrentBlock(levels[i], fs))

\* Summariser.Finalise for levels i..len
RECURSIVE FinaliseLevels(_, _, _)
FinaliseLevels(levels, i, fs) ==
    IF i > Len(levels)
    THEN [levels |-> levels, files |-> fs]
    ELSE FinaliseLevels([levels EXCEPT ![i].outputfile.closed = TRUE],
                        i + 1, CloseCurrentBlock(levels[i], fs))

Finalise(obj, fs) ==
    LET r == FinaliseLevels(obj.levels, 1, fs)
    IN  [obj |-> [obj EXCEPT !.levels = r.levels], files |-> r.files]

(* ---------------- the script ---------------- *)

NoRecord == [chromosome |-> "", pos |-> 0, val |-> ""]

\* Python's None, where a string is expected
None == "None"

\* DQXDbTools.py as imported (line 94), no call made
NoRequests ==
    /\ DbCredentialVerifier = None
    /\ asked = {}
    /\ connections = {}
    /\ results = {}
    /\ calls = 0

\* the state at line 153, whatever the arguments
Start ==
    /\ initBlocksize = 0
    /\ stream = <<>>
    /\ pc = "read"
    /\ comps = NoRecord
    /\ linecount = 0
    /\ currentChromosome = ""
    /\ summariser = 0
    /\ processedChromosomes = {}
    /\ heap = <<>>
    /\ files = <<>>
    /\ raised = ""
    /\ accepted = <<>>

Init ==
    /\ NoRequests
    /\ argv = Argv
    /\ categories \in Catalogs
    /\ Start

\* lines 155-166: a record is read and split, the source file holding labels
\* of L, positions of P and values of V
Read(L, P, V) ==
    /\ pc = "read"
    /\ linecount < MaxRecords
    /\ \E chromosome \in L, pos \in P, val \in V :
          /\ comps' = [chromosome |-> chromosome, pos |-> pos, val |-> val]
          /\ stream' = Append(stream, [chromosome |-> chromosome, pos |-> pos, val |-> val])
          /\ pc' = IF chromosome # currentChromosome THEN "finalise" ELSE "add"
    /\ linecount' = linecount + 1
    /\ UNCHANGED dbvars
    /\ UNCHANGED <<argv, categories, initBlocksize, currentChromosome, summariser,
                   processedChromosomes, heap, files, raised, accepted>>

ReadRecord == Read(Labels, Positions, Values)

\* the chromosome switch without lines 167-168
FinalisePrevious_skip ==
    /\ pc = "finalise"
    /\ pc' = "construct"
    /\ UNCHANGED <<argv, initBlocksize, stream, dbvars>>
    /\ UNCHANGED <<categories, comps, linecount, currentChromosome, summariser,
                   processedChromosomes, heap, files, raised, accepted>>

\* lines 167-168: the summariser of the previous chromosome is finalised
FinalisePrevious ==
    /\ pc = "finalise"
    /\ IF summariser # 0
       THEN LET r == Finalise(heap[summariser], files)
            IN  /\ heap' = [heap EXCEPT ![summariser] = r.obj]
                /\ files' = r.files
       ELSE UNCHANGED <<heap, files>>
    /\ pc' = "construct"
    /\ UNCHANGED <<argv, initBlocksize, stream, dbvars>>
    /\ UNCHANGED <<categories, comps, linecount, currentChromosome, summariser,
                   processedChromosomes, raised, accepted>>

\* line 169
Construct ==
    /\ pc = "construct"
    /\ LET r == NewSummariser(comps.chromosome, files)
       IN  /\ heap' = Append(heap, r.obj)
           /\ files' = r.files
    /\ summariser' = Len(heap) + 1
    /\ accepted' = Append(accepted, <<>>)
    /\ pc' = "check"
    /\ UNCHANGED <<argv, initBlocksize, stream, dbvars>>
    /\ UNCHANGED <<categories, comps, linecount, currentChromosome,
                   processedChromosomes, raised>>

\* lines 170-173
CheckRepeat ==
    /\ pc = "check"
    /\ IF comps.chromosome \in processedChromosomes
       THEN /\ raised' = "File should be ordered by chromosome"
            /\ pc' = "aborted"
            /\ UNCHANGED <<processedChromosomes, currentChromosome>>
       ELSE /\ processedChromosomes' = processedChromosomes \cup {comps.chromosome}
            /\ currentChromosome' = comps.chromosome
            /\ pc' = "add"
            /\ UNCHANGED raised
    /\ UNCHANGED <<argv, initBlocksize, stream, dbvars>>
    /\ UNCHANGED <<categories, comps, linecount, summariser, heap, files, accepted>>

\* line 174 with the ordering test of Add placed after the loop over the levels
CallAdd_late ==
    /\ pc = "add"
    /\ IF summariser = 0
       THEN /\ raised' = "AttributeError"
            /\ pc' = "aborted"
            /\ UNCHANGED <<heap, files, accepted>>
       ELSE LET r == Add(heap[summariser], files, comps.pos, comps.val)
            IN  /\ heap' = [heap EXCEPT ![summariser] = r.obj]
                /\ files' = r.files
                /\ IF AddRaises(heap[summariser], comps.pos)
                   THEN /\ raised' = "Positions should be strictly ordered"
                        /\ pc' = "aborted"
                        /\ UNCHANGED accepted
                   ELSE /\ accepted' = [accepted EXCEPT ![summariser] =
                                           Append(@, [pos |-> comps.pos, val |-> comps.val])]
                        /\ pc' = "read"
                        /\ UNCHANGED raised
    /\ UNCHANGED <<argv, initBlocksize, stream, dbvars>>
    /\ UNCHANGED <<categories, comps, linecount, currentChromosome, summariser,
                   processedChromosomes>>

\* line 174
CallAdd ==
    /\ pc = "add"
    /\ IF summariser = 0
       THEN /\ raised' = "AttributeError"
            /\ pc' = "aborted"
            /\ UNCHANGED <<heap, files, accepted>>
       ELSE IF AddRaises(heap[summariser], comps.pos)
            THEN /\ raised' = "Positions should be strictly ordered"
                 /\ pc' = "aborted"
                 /\ UNCHANGED <<heap, files, accepted>>
            ELSE LET r == Add(heap[summariser], files, comps.pos, comps.val)
                 IN  /\ heap' = [heap EXCEPT ![summariser] = r.obj]
                     /\ files' = r.files
                     /\ accepted' = [accepted EXCEPT ![summariser] =
                                        Append(@, [pos |-> comps.pos, val |-> comps.val])]
                     /\ pc' = "read"
                     /\ UNCHANGED raised
    /\ UNCHANGED <<argv, initBlocksize, stream, dbvars>>
    /\ UNCHANGED <<categories, comps, linecount, currentChromosome, summariser,
                   processedChromosomes>>

\* lines 155-157 and 177-178: the end of the file
EndOfFile ==
    /\ pc = "read"
    /\ IF summariser # 0
       THEN LET r == Finalise(heap[summariser], files)
            IN  /\ heap' = [heap EXCEPT ![summariser] = r.obj]
                /\ files' = r.files
       ELSE UNCHANGED <<heap, files>>
    /\ pc' = "done"
    /\ UNCHANGED <<argv, initBlocksize, stream, dbvars>>
    /\ UNCHANGED <<categories, comps, linecount, currentChromosome, summariser,
                   processedChromosomes, raised, accepted>>

Next ==
    \/ ReadRecord
    \/ FinalisePrevious
    \/ Construct
    \/ CheckRepeat
    \/ CallAdd
    \/ EndOfFile

Spec == Init /\ [][Next]_vars

(* ---------------- the script on other source files ---------------- *)

\* categories A;B and the single level 10, on a source file of chr1 records
\* at positions 1, 5, 12, 25 with values A, B
ScenarioPositions == {1, 5, 12, 25}

InitScenario ==
    /\ NoRequests
    /\ argv = [blockSizeStart |-> 10, blockSizeIncrFactor |-> 2, blockSizeMax |-> 10]
    /\ categories = <<"A", "B">>
    /\ Start

ReadScenarioRecord == Read({"chr1"}, ScenarioPositions, {"A", "B"})

NextScenario ==
    \/ ReadScenarioRecord
    \/ FinalisePrevious
    \/ Construct
    \/ CheckRepeat
    \/ CallAdd
    \/ EndOfFile

SpecScenario == InitScenario /\ [][NextScenario]_vars

\* the configuration of Init on a source file of chr1 and chr2 records
RunLabels == {"chr1", "chr2"}
\* at positions in the first, second and last block of the finest level
RunPositions == {0, 3, MaxPos}

ReadRunRecord == Read(RunLabels, RunPositions, Values)

NextRuns ==
    \/ ReadRunRecord
    \/ FinalisePrevious
    \/ Construct
    \/ CheckRepeat
    \/ CallAdd
    \/ EndOfFile

SpecRuns == Init /\ [][NextRuns]_vars

(* ---------------- Summariser.__init__, one loop iteration per step ---------------- *)

\* the arguments the stepwise construction is run with
LevelArgs ==
    [blockSizeStart : 1..MaxStart,
     blockSizeIncrFactor : (0 - MaxFactor)..MaxFactor,
     blockSizeMax : 1..MaxBlock]

\* line 56 with `<` for `<=`
LoopTest_lt(b) == b < blockSizeMax

\* line 56: while blocksize <= self.blockSizeMax
LoopTest(b) == b <= blockSizeMax

\* line 63 with `+=` for `*=`
NextBlocksize_add(b) == b + blockSizeIncrFactor

\* line 63: blocksize *= self.blockSizeIncrFactor
NextBlocksize(b) == b * blockSizeIncrFactor

\* lines 46-55 of Summariser('chr1', ...): no level yet
InitConstruction ==
    /\ NoRequests
    /\ argv \in LevelArgs
    /\ categories \in Catalogs
    /\ initBlocksize = argv.blockSizeStart
    /\ stream = <<>>
    /\ pc = "init_loop"
    /\ comps = NoRecord
    /\ linecount = 0
    /\ currentChromosome = ""
    /\ summariser = 0
    /\ processedChromosomes = {}
    /\ heap = <<[chromosome |-> "chr1", lastpos |-> 0 - 1, levels |-> <<>>]>>
    /\ files = <<>>
    /\ raised = ""
    /\ accepted = <<>>

\* lines 56-63: one iteration of the while loop
InitLoopStep ==
    /\ pc = "init_loop"
    /\ LoopTest(initBlocksize)
    /\ Len(heap[1].levels) < MaxLevels
    /\ heap' = [heap EXCEPT ![1].levels =
                    Append(@, NewLevel(heap[1].chromosome, initBlocksize))]
    /\ files' = OpenForWrite(files, Path(heap[1].chromosome, initBlocksize))
    /\ initBlocksize' = NextBlocksize(initBlocksize)
    /\ UNCHANGED <<argv, categories, stream, pc, comps, linecount, currentChromosome,
                   summariser, processedChromosomes, raised, accepted, dbvars>>

\* lines 56 and 64: the loop test fails and __init__ returns
InitLoopExit ==
    /\ pc = "init_loop"
    /\ ~LoopTest(initBlocksize)
    /\ pc' = "init_done"
    /\ UNCHANGED <<argv, categories, initBlocksize, stream, comps, linecount,
                   currentChromosome, summariser, processedChromosomes, heap, files,
                   raised, accepted, dbvars>>

NextConstruction ==
    \/ InitLoopStep
    \/ InitLoopExit

\* the constructor is sequential code: it keeps running while it can
SpecConstruction ==
    InitConstruction /\ [][NextConstruction]_vars /\ WF_vars(NextConstruction)

(* ---------------- DQXDbTools.py: the credential gate ---------------- *)

\* config.DB
config_DB == "db1"
\* the database names callers pass
Databases == {None, "", "db2"}
\* the keyword arguments callers pass on to MySQLdb.connect: none, or a db
Kwargs == {[db |-> None], [db |-> "db2"]}
\* CredentialInformation objects: userid 'anonymous' (line 112) or 'local' (line 117)
Credentials == {[userid |-> "anonymous"], [userid |-> "local"]}
\* the values of the module global DbCredentialVerifier
Verifiers == {None, "verifier"}

DbOperationType == [read |-> 1, write |-> 2]

\* DbOperation.__init__
DbOperation(operationType, databaseName, tableName, columnName) ==
    [operationType |-> operationType,
     databaseName |-> IF databaseName = None \/ databaseName = ""
                      THEN config_DB ELSE databaseName,
     tableName |-> tableName,
     columnName |-> columnName]

DbOperationRead(databaseName) ==
    DbOperation(DbOperationType.read, databaseName, None, None)

DbOperationWrite(databaseName) ==
    DbOperation(DbOperationType.write, databaseName, None, None)

\* the operations callers ask about
Operations ==
    {DbOperationRead(d) : d \in Databases} \cup {DbOperationWrite(d) : d \in Databases}

\* DbCredentialVerifier(credInfo, operation).IsGranted() can be `granted`:
\* the verifier has not answered otherwise before
Answers(credInfo, operation, granted) ==
    \A a \in asked :
        (a.credInfo = credInfo /\ a.operation = operation) => a.granted = granted

\* the answers given once DbCredentialVerifier(credInfo, operation) has returned
Ask(credInfo, operation, granted) ==
    asked \cup {[credInfo |-> credInfo, operation |-> operation, granted |-> granted]}

\* CredentialInformation.CanDo, the verifier answering `granted`
CanDo(credInfo, operation, granted) ==
    IF DbCredentialVerifier # None
    THEN [asked |-> Ask(credInfo, operation, granted),
          result |-> IF granted THEN "True" ELSE "False"]
    ELSE [asked |-> asked, result |-> "True"]

\* VerifyCanDo with the test of line 155 lacking its `not`
VerifyCanDo_nonot(credInfo, operation, granted) ==
    IF DbCredentialVerifier # None
    THEN [asked |-> Ask(credInfo, operation, granted),
          result |-> IF granted THEN "CredentialDatabaseException" ELSE None]
    ELSE [asked |-> asked, result |-> None]

\* CredentialInformation.VerifyCanDo, the verifier answering `granted`
VerifyCanDo(credInfo, operation, granted) ==
    IF DbCredentialVerifier # None
    THEN [asked |-> Ask(credInfo, operation, granted),
          result |-> IF ~granted THEN "CredentialDatabaseException" ELSE None]
    ELSE [asked |-> asked, result |-> None]

\* the record of a call in results
Result(call, credInfo, operation, result) ==
    [call |-> call, credInfo |-> credInfo, operation |-> operation, result |-> result]

\* DQXDbTools.py as a deployment has set it up: a verifier or none
InitRequests ==
    /\ argv = Argv
    /\ categories = <<"A", "B">>
    /\ Start
    /\ DbCredentialVerifier \in Verifiers
    /\ asked = {}
    /\ connections = {}
    /\ results = {}
    /\ calls = 0

\* a request handler calls credInfo.CanDo(operation)
CallCanDo ==
    \E credInfo \in Credentials, operation \in Operations, granted \in BOOLEAN :
        /\ calls < MaxCalls
        /\ IF DbCredentialVerifier # None
           THEN Answers(credInfo, operation, granted) ELSE granted
        /\ LET r == CanDo(credInfo, operation, granted)
           IN  /\ asked' = r.asked
               /\ results' = results \cup {Result("CanDo", credInfo, operation, r.result)}
        /\ calls' = calls + 1
        /\ UNCHANGED <<DbCredentialVerifier, connections, scriptvars>>

\* a request handler calls credInfo.VerifyCanDo(operation)
CallVerifyCanDo ==
    \E credInfo \in Credentials, operation \in Operations, granted \in BOOLEAN :
        /\ calls < MaxCalls
        /\ IF DbCredentialVerifier # None
           THEN Answers(credInfo, operation, granted) ELSE granted
        /\ LET r == VerifyCanDo(credInfo, operation, granted)
           IN  /\ asked' = r.asked
               /\ results' = results \cup {Result("VerifyCanDo", credInfo, operation, r.result)}
        /\ calls' = calls + 1
        /\ UNCHANGED <<DbCredentialVerifier, connections, scriptvars>>

\* OpenDatabase(credInfo, database, **kwargs); MySQLdb.connect returns a
\* connection or raises
OpenDatabase ==
    \E credInfo \in Credentials, database \in Databases, kwargs \in Kwargs,
       granted \in BOOLEAN, connected \in BOOLEAN :
        /\ calls < MaxCalls
        /\ LET db == IF database = None \/ database = "" THEN config_DB ELSE database
               operation == DbOperationRead(db)
               v == VerifyCanDo(credInfo, operation, granted)
               args == [db |-> IF kwargs.db # None THEN kwargs.db ELSE db]
               verified == results \cup {Result("VerifyCanDo", credInfo, operation, v.result)}
           IN  /\ IF DbCredentialVerifier # None
                  THEN Answers(credInfo, operation, granted) ELSE granted
               /\ asked' = v.asked
               /\ IF v.result = "CredentialDatabaseException"
                  THEN /\ connected
                       /\ results' = verified \cup
                            {Result("OpenDatabase", credInfo, operation, v.result)}
                       /\ UNCHANGED connections
                  ELSE IF connected
                       THEN /\ connections' = connections \cup
                                 {[by |-> "OpenDatabase", credInfo |-> credInfo,
                                   database |-> database, args |-> args]}
                            /\ results' = verified \cup
                                 {Result("OpenDatabase", credInfo, operation, "connection")}
                       ELSE /\ results' = verified \cup
                                 {Result("OpenDatabase", credInfo, operation, "OperationalError")}
                            /\ UNCHANGED connections
        /\ calls' = calls + 1
        /\ UNCHANGED <<DbCredentialVerifier, scriptvars>>

\* OpenNoDatabase(credInfo, **kwargs): no operation is verified
OpenNoDatabase ==
    \E credInfo \in Credentials, kwargs \in Kwargs, connected \in BOOLEAN :
        /\ calls < MaxCalls
        /\ IF connected
           THEN connections' = connections \cup
                    {[by |-> "OpenNoDatabase", credInfo |-> credInfo,
                      database |-> None, args |-> [db |-> kwargs.db]]}
           ELSE UNCHANGED connections
        /\ calls' = calls + 1
        /\ UNCHANGED <<DbCredentialVerifier, asked, results, scriptvars>>

NextRequests ==
    \/ CallCanDo
    \/ CallVerifyCanDo
    \/ OpenDatabase
    \/ OpenNoDatabase

SpecRequests == InitRequests /\ [][NextRequests]_vars

(* ---------------- properties ---------------- *)

\* the Summariser the script holds, its levels and the Add calls it accepted
Cur == heap[summariser]
Acc == accepted[summariser]
LevelIdx == 1..Len(Cur.levels)
Sink(level) == files[level.outputfile.path]

\* Finalise has just returned for the Summariser the script holds
JustFinalised == summariser # 0 /\ pc \in {"construct", "done"}

StrictlyIncreasing(acc) ==
    \A i \in 1..(Len(acc) - 1) : acc[i].pos < acc[i + 1].pos

RECURSIVE MaxPosition(_)
MaxPosition(acc) ==
    IF Len(acc) = 1 THEN acc[1].pos
    ELSE LET m == MaxPosition(Tail(acc))
         IN  IF acc[1].pos > m THEN acc[1].pos ELSE m

CeilDiv(a, b) == (a + b - 1) \div b

\* the category indices a value resolves to: its own, else the catch-all
Resolved(val) ==
    IF InCategorymap(val) THEN {categorymap(val)} ELSE otherCategoryNr

AllResolve(acc) == \A i \in 1..Len(acc) : Resolved(acc[i].val) # {}

RECURSIVE SumCounts(_, _)
SumCounts(catcounts, n) ==
    IF n = 0 THEN 0 ELSE catcounts[n - 1] + SumCounts(catcounts, n - 1)

RECURSIVE SumBlocks(_)
SumBlocks(blocks) ==
    IF blocks = <<>> THEN 0
    ELSE SumCounts(blocks[1], Len(categories)) + SumBlocks(Tail(blocks))

\* the counts of the records of acc that lie in block i of width w
BlockCounts(acc, w, i) ==
    [c \in CatIdx |->
        Cardinality({k \in 1..Len(acc) : /\ i * w <= acc[k].pos
                                         /\ acc[k].pos < (i + 1) * w
                                         /\ c \in Resolved(acc[k].val)})]

\* C1 (as claimed): Add raises whenever pos is not above the position of the
\* call accepted last, so the positions a Summariser accepts are strictly
\* increasing.
C1_AcceptedStrictlyIncreasing ==
    \A s \in 1..Len(accepted) : StrictlyIncreasing(accepted[s])

\* C2 (as claimed): when Finalise has returned, each level's file holds
\* ceil(p / blocksize) blocks, p the position of the last record (taken for
\* positions from 1 on).
C2_CeilBlocks ==
    JustFinalised /\ Len(Acc) > 0 /\ (\A k \in 1..Len(Acc) : Acc[k].pos >= 1) =>
        \A i \in LevelIdx :
            Len(Sink(Cur.levels[i])) = CeilDiv(Acc[Len(Acc)].pos, Cur.levels[i].blocksize)

\* C2 (amended): when Finalise has returned, each level's file holds
\* floor(p / blocksize) + 1 blocks, p the greatest position accepted.
C2_FloorPlusOneBlocks ==
    JustFinalised /\ Len(Acc) > 0 =>
        \A i \in LevelIdx :
            Len(Sink(Cur.levels[i])) = (MaxPosition(Acc) \div Cur.levels[i].blocksize) + 1

\* a finalised run of two records or more that ends on a block boundary
C2_Witness ==
    /\ JustFinalised
    /\ Len(Acc) >= 2
    /\ StrictlyIncreasing(Acc)
    /\ \E i \in LevelIdx :
          /\ Acc[Len(Acc)].pos > 0
          /\ Acc[Len(Acc)].pos % Cur.levels[i].blocksize = 0
          /\ Len(Sink(Cur.levels[i])) >= 2

\* C3: for a strictly increasing run, when Finalise has returned the file of
\* each level holds blocks 0..last in order, block i being the per-category
\* count of the records with position in [i*w, (i+1)*w).
C3_BlocksCountRecords ==
    JustFinalised /\ Len(Acc) > 0 /\ StrictlyIncreasing(Acc) =>
        \A i \in LevelIdx :
            LET w == Cur.levels[i].blocksize
                n == (Acc[Len(Acc)].pos \div w) + 1
            IN  Sink(Cur.levels[i]) = [b \in 1..n |-> BlockCounts(Acc, w, b - 1)]

\* a finalised increasing run with a gap: an all-zero block between two
\* blocks that hold records
C3_Witness ==
    /\ JustFinalised
    /\ Len(Acc) >= 2
    /\ StrictlyIncreasing(Acc)
    /\ AllResolve(Acc)
    /\ \E i \in LevelIdx :
          LET f == Sink(Cur.levels[i])
          IN  /\ Len(f) >= 3
              /\ f[1] # ZeroCounts
              /\ f[2] = ZeroCounts
              /\ f[Len(f)] # ZeroCounts


\* one call of Add that returns, level by level: what it appends to the file
\* and the level it leaves
C4_AddStep ==
    (pc = "add" /\ pc' = "read") =>
        \A i \in LevelIdx :
            LET old == heap[summariser].levels[i]
                new == heap'[summariser].levels[i]
                fo  == files[old.outputfile.path]
                fn  == files'[old.outputfile.path]
                k   == Len(fn) - Len(fo)
            IN  /\ k >= 0
                /\ SubSeq(fn, 1, Len(fo)) = fo
                /\ k > 0 => fn[Len(fo) + 1] = old.catcounts
                /\ \A j \in 2..k : fn[Len(fo) + j] = ZeroCounts
                /\ new.currentblockend - new.blocksize <= comps.pos
                /\ comps.pos < new.currentblockend
                /\ new = CountValue([old EXCEPT
                                        !.currentblockend = new.currentblockend,
                                        !.catcounts = IF k = 0 THEN @ ELSE ZeroCounts],
                                    comps.val)

\* C4 (as claimed): an Add that returns appends to each level's file the
\* counts in progress and then all-zero blocks only, leaves
\* currentblockend - blocksize <= pos < currentblockend, and counts the record
\* in the block left in progress.
C4_AddClosesBlocks == [][C4_AddStep]_vars

RepeatRecord ==
    /\ comps.chromosome # currentChromosome
    /\ comps.chromosome \in processedChromosomes

\* C6 (as claimed): a record whose label differs from the current one and had
\* a run before ends the script with 'File should be ordered by chromosome',
\* and no label is given a second Summariser.
C6_NoSecondPyramid ==
    /\ RepeatRecord =>
          \/ pc \in {"finalise", "construct", "check"}
          \/ pc = "aborted" /\ raised = "File should be ordered by chromosome"
    /\ \A s, t \in 1..Len(heap) : s # t => heap[s].chromosome # heap[t].chromosome

\* a step keeps every file and what was written to it
C7_Step ==
    \A p \in DOMAIN files :
        /\ p \in DOMAIN files'
        /\ Len(files'[p]) >= Len(files[p])
        /\ SubSeq(files'[p], 1, Len(files[p])) = files[p]

\* C7 (as claimed): every step leaves each block written at its index with
\* its content: each file is a prefix of what it is after the step, also on
\* the steps that end in an exception.
C7_AppendOnly == [][C7_Step]_vars

Finalised(obj) == \A i \in 1..Len(obj.levels) : obj.levels[i].outputfile.closed
Active(obj) == \A i \in 1..Len(obj.levels) : ~obj.levels[i].outputfile.closed

\* C8 (as claimed): when the script has ended with an exception, no
\* Summariser is left unfinalised with counts that were never written.
C8_FinalisedOnError ==
    pc = "aborted" =>
        \A s \in 1..Len(heap) :
            Active(heap[s]) =>
                \A i \in 1..Len(heap[s].levels) : heap[s].levels[i].catcounts = ZeroCounts

\* C9 (as claimed): when the script has ended, normally or with an exception,
\* every output file that was opened is closed.
C9_SinksClosedAtExit ==
    pc \in {"done", "aborted"} =>
        \A s \in 1..Len(heap) :
            \A i \in 1..Len(heap[s].levels) : heap[s].levels[i].outputfile.closed

\* every Summariser is Active or Finalised, only the one the script holds is
\* Active, and it is Active wherever Finalise or Add is about to be called
C10_State ==
    /\ \A s \in 1..Len(heap) :
          /\ Active(heap[s]) \/ Finalised(heap[s])
          /\ Active(heap[s]) => s = summariser
    /\ (summariser # 0 /\ pc \in {"finalise", "add", "read", "check"}) => Active(Cur)

\* a Finalised Summariser is left as it is and accepts no record
C10_Step ==
    \A s \in 1..Len(heap) :
        Finalised(heap[s]) =>
            /\ heap'[s] = heap[s]
            /\ accepted'[s] = accepted[s]

\* C10: a Summariser is Active from its construction and Finalised from its
\* Finalise on; Finalise and Add are called on an Active one only, a
\* Finalised one never changes again, and at most one is Active at a time.
C10_Lifecycle == []C10_State /\ [][C10_Step]_vars

\* the Summariser of the first run is Finalised while the one of the second
\* run is Active and has accepted a record
C10_Witness ==
    /\ Len(heap) >= 2
    /\ Finalised(heap[1])
    /\ Len(accepted[1]) >= 1
    /\ Active(heap[2])
    /\ Len(accepted[2]) >= 1

\* the source file read so far is grouped by chromosome, strictly increasing
\* in position within each chromosome, and holds no position below 0
Grouped(st) ==
    \A i, j, k \in 1..Len(st) :
        (i < j /\ j < k /\ st[i].chromosome = st[k].chromosome) =>
            st[j].chromosome = st[i].chromosome

WellFormed(st) ==
    /\ Grouped(st)
    /\ \A i \in 1..Len(st) : st[i].pos >= 0
    /\ \A i \in 1..(Len(st) - 1) :
          st[i].chromosome = st[i + 1].chromosome => st[i].pos < st[i + 1].pos

StreamLabels(st) == {st[i].chromosome : i \in 1..Len(st)}

\* C11 (as claimed): on a source file that is grouped by chromosome and
\* strictly increasing within each chromosome no exception is raised, and at
\* the end of the file there is exactly one Summariser per label read, each
\* of them finalised.
C11_WellFormedRunCompletes ==
    WellFormed(stream) =>
        /\ raised = ""
        /\ pc = "done" =>
              /\ Len(heap) = Cardinality(StreamLabels(stream))
              /\ \A s \in 1..Len(heap) : Finalised(heap[s])

RECURSIVE Pow(_, _)
Pow(b, k) == IF k = 0 THEN 1 ELSE b * Pow(b, k - 1)

Widths(levels) == [k \in 1..Len(levels) |-> levels[k].blocksize]

\* C12: with blockSizeStart > 0 and blockSizeIncrFactor > 1 the levels built
\* are those of width start * factor^k, k = 0, 1, ..., as long as the width
\* is <= blockSizeMax, in increasing width; each starts with
\* currentblockend = blocksize and one zero count per category; start 10,
\* factor 2, max 40 give 10, 20, 40.  The constructor taken as one step
\* (InitLevels) builds the same levels and files.
C12_GeometricLevels ==
    blockSizeIncrFactor > 1 =>
        LET levels == heap[1].levels
        IN  /\ \A k \in 1..Len(levels) :
                  /\ levels[k].blocksize = blockSizeStart * Pow(blockSizeIncrFactor, k - 1)
                  /\ levels[k].blocksize <= blockSizeMax
                  /\ levels[k].currentblockend = levels[k].blocksize
                  /\ levels[k].catcounts = [c \in 0..(Len(categories) - 1) |-> 0]
                  /\ k > 1 => levels[k - 1].blocksize < levels[k].blocksize
            /\ pc = "init_done" =>
                  /\ blockSizeStart * Pow(blockSizeIncrFactor, Len(levels)) > blockSizeMax
                  /\ InitLevels("chr1", blockSizeStart, <<>>, <<>>)
                        = [levels |-> levels, files |-> files]
                  /\ argv = [blockSizeStart |-> 10, blockSizeIncrFactor |-> 2,
                             blockSizeMax |-> 40] => Widths(levels) = <<10, 20, 40>>

\* the construction with start 10, factor 2, max 40 has returned
C12_Witness ==
    /\ pc = "init_done"
    /\ argv = [blockSizeStart |-> 10, blockSizeIncrFactor |-> 2, blockSizeMax |-> 40]
    /\ Len(heap[1].levels) = 3

ValidStartMax == blockSizeStart > 0 /\ blockSizeMax >= blockSizeStart

\* C13 (as claimed): with blockSizeStart > 0 and blockSizeMax >= blockSizeStart
\* the construction never returns for a factor <= 1.
C13_NoReturnForFactorAtMostOne ==
    (ValidStartMax /\ blockSizeIncrFactor <= 1) => pc # "init_done"

\* C13 (amended): with blockSizeStart > 0 and blockSizeMax >= blockSizeStart
\* the construction returns for every factor > 1 and every factor < -1, and for
\* the factors 1, 0 and -1 the loop test holds in every state: it never returns.
C13_Termination ==
    /\ [](ValidStartMax /\ blockSizeIncrFactor \in {0 - 1, 0, 1} =>
             pc = "init_loop" /\ LoopTest(initBlocksize))
    /\ (ValidStartMax /\ (blockSizeIncrFactor > 1 \/ blockSizeIncrFactor < 0 - 1))
          ~> (pc = "init_done")

\* a construction with factor 1, 0 or -1 that has built MaxLevels levels and
\* whose loop test still holds
C13_Witness ==
    /\ ValidStartMax
    /\ blockSizeIncrFactor \in {0 - 1, 0, 1}
    /\ Len(heap[1].levels) = MaxLevels
    /\ LoopTest(initBlocksize)

\* the step is a call of Add that returns
AddReturns == pc = "add" /\ pc' = "read"

\* the number of blocks the step appends to the file of level i of the current
\* Summariser, and the counts its increment starts from
Closed(i) ==
    LET p == heap[summariser].levels[i].outputfile.path
    IN  Len(files'[p]) - Len(files[p])

CountsBase(i) ==
    IF Closed(i) = 0 THEN heap[summariser].levels[i].catcounts ELSE ZeroCounts

IsLabel(val) == \E j \in 1..Len(categories) : categories[j] = val

\* an Add that returns raises, at every level, by one the count of the label
\* val if val is a label, else the count of '_other_' if that is a label
C14_Step ==
    AddReturns =>
        \A i \in LevelIdx :
            LET new == heap'[summariser].levels[i].catcounts
                v   == IF IsLabel(comps.val) THEN comps.val ELSE "_other_"
            IN  IsLabel(v) =>
                    \E j \in CatIdx :
                        /\ categories[j + 1] = v
                        /\ new = [CountsBase(i) EXCEPT ![j] = CountsBase(i)[j] + 1]

Unmatched == ~IsLabel(comps.val) /\ ~IsLabel("_other_")

\* Add is called with an unmatched value at a position it does not reject: it
\* returns, closes the blocks below the position at every level and
\* increments no count
C15_Step ==
    (pc = "add" /\ summariser # 0 /\ Unmatched /\ comps.pos > Cur.lastpos) =>
        /\ pc' = "read"
        /\ \A i \in LevelIdx :
              LET old == heap[summariser].levels[i]
                  new == heap'[summariser].levels[i]
                  fo  == files[old.outputfile.path]
                  fn  == files'[old.outputfile.path]
              IN  /\ new.catcounts = CountsBase(i)
                  /\ comps.pos < new.currentblockend
                  /\ new.currentblockend = old.currentblockend + Closed(i) * old.blocksize
                  /\ Closed(i) >= 0
                  /\ Closed(i) = 0 => old.currentblockend > comps.pos
                  /\ Closed(i) > 0 => new.currentblockend - old.blocksize <= comps.pos
                  /\ SubSeq(fn, 1, Len(fo)) = fo
                  /\ Closed(i) > 0 => fn[Len(fo) + 1] = old.catcounts
                  /\ \A j \in 2..Closed(i) : fn[Len(fo) + j] = ZeroCounts

\* the counts written and in progress are those of the accepted records whose
\* value resolves to a category
C15_State ==
    summariser # 0 =>
        \A i \in LevelIdx :
            LET level == Cur.levels[i]
                n == Cardinality({k \in 1..Len(Acc) : Resolved(Acc[k].val) # {}})
            IN  IF JustFinalised
                THEN SumBlocks(Sink(level)) = n
                ELSE SumBlocks(Sink(level)) + SumCounts(level.catcounts, Len(categories)) = n

\* C15: a record whose value is no label while no catch-all is configured is
\* no error: Add returns, increments no count, still closes the blocks its
\* position requires, and the counts of the other records are what they are
\* without it.
C15_UnmatchedIgnored == []C15_State /\ [][C15_Step]_vars

\* an Add of an unmatched value has just closed a block that holds an earlier
\* record
C15_Witness ==
    /\ pc = "read"
    /\ summariser # 0
    /\ ~IsLabel("_other_")
    /\ Len(Acc) >= 2
    /\ ~IsLabel(Acc[Len(Acc)].val)
    /\ IsLabel(Acc[1].val)
    /\ Acc[1].pos < Acc[Len(Acc)].pos
    /\ \E i \in LevelIdx :
          /\ Len(Sink(Cur.levels[i])) >= 1
          /\ Sink(Cur.levels[i])[1] # ZeroCounts
          /\ Cur.levels[i].catcounts = ZeroCounts

Record(chromosome, pos, val) == [chromosome |-> chromosome, pos |-> pos, val |-> val]

ScenarioStream == <<Record("chr1", 1, "A"), Record("chr1", 5, "B"), Record("chr1", 12, "A")>>

\* C16: with categories A, B and the single level 10, after the records
\* (1,A), (5,B) nothing is written; the Add of (12,A) writes block 0 =
\* {A:1, B:1}; Finalise writes block 1 = {A:1, B:0}, and the file holds
\* those two blocks.
C16_Scenario ==
    LET f == files[Path("chr1", 10)]
    IN  /\ (stream = SubSeq(ScenarioStream, 1, 2) /\ pc = "read") => f = <<>>
        /\ (stream = ScenarioStream /\ pc = "add") => f = <<>>
        /\ (stream = ScenarioStream /\ pc = "read") => f = <<(0 :> 1 @@ 1 :> 1)>>
        /\ (stream = ScenarioStream /\ pc = "done") =>
              /\ f = <<(0 :> 1 @@ 1 :> 1), (0 :> 1 @@ 1 :> 0)>>
              /\ DOMAIN files = {Path("chr1", 10)}

\* the script has ended on the three records of the scenario
C16_Witness ==
    /\ stream = ScenarioStream
    /\ pc = "done"
    /\ Len(files[Path("chr1", 10)]) = 2

\* the (pos, val) of the records of chromosome c in st, in order
RECURSIVE SubStream(_, _)
SubStream(st, c) ==
    IF st = <<>> THEN <<>>
    ELSE IF st[1].chromosome = c
         THEN <<[pos |-> st[1].pos, val |-> st[1].val]>> \o SubStream(Tail(st), c)
         ELSE SubStream(Tail(st), c)

RECURSIVE AddAll(_, _)
AddAll(r, acc) ==
    IF acc = <<>> THEN r
    ELSE AddAll(Add(r.obj, r.files, acc[1].pos, acc[1].val), Tail(acc))

\* the files a script writes that is given the records acc of chromosome c
\* and nothing else
Alone(c, acc) ==
    LET r == AddAll(NewSummariser(c, <<>>), acc)
    IN  Finalise(r.obj, r.files).files

\* C17: when the script has ended, the files of each chromosome are those
\* the script writes on that chromosome's records alone, wherever its run
\* stands in the source file; and a Summariser just constructed has
\* lastpos -1, currentblockend = blocksize, zero counts and empty files,
\* whatever the positions of the run before it.
C17_ChromosomeIndependence ==
    /\ pc = "done" =>
          \A s \in 1..Len(heap) :
              LET c == heap[s].chromosome
                  alone == Alone(c, SubStream(stream, c))
              IN  /\ \A p \in DOMAIN alone : p \in DOMAIN files /\ files[p] = alone[p]
                  /\ \A i \in 1..Len(heap[s].levels) :
                        heap[s].levels[i].outputfile.path \in DOMAIN alone
    /\ pc = "check" =>
          /\ Cur.lastpos = 0 - 1
          /\ \A i \in LevelIdx :
                /\ Cur.levels[i].currentblockend = Cur.levels[i].blocksize
                /\ Cur.levels[i].catcounts = ZeroCounts
                /\ Sink(Cur.levels[i]) = <<>>

\* the script has ended on a run of chr2 followed by a run of chr1 that
\* starts below the last position of chr2
C17_Witness ==
    /\ pc = "done"
    /\ Len(stream) >= 3
    /\ stream[1].chromosome = "chr2"
    /\ stream[2].chromosome = "chr2"
    /\ stream[3].chromosome = "chr1"
    /\ stream[1].pos < stream[2].pos
    /\ stream[3].pos < stream[2].pos

\* every level of an Active Summariser ends its block at a positive multiple
\* of blocksize, and its file holds the blocks before that one
C18_State ==
    \A s \in 1..Len(heap) :
        Active(heap[s]) =>
            \A i \in 1..Len(heap[s].levels) :
                LET level == heap[s].levels[i]
                IN  /\ level.currentblockend > 0
                    /\ level.currentblockend % level.blocksize = 0
                    /\ Len(files[level.outputfile.path])
                          = (level.currentblockend \div level.blocksize) - 1

\* a step moves currentblockend of a level of an Active Summariser forward
\* only, by blocksize for each block it appends to the level's file
C18_Step ==
    \A s \in 1..Len(heap) :
        Active(heap[s]) =>
            \A i \in 1..Len(heap[s].levels) :
                LET old == heap[s].levels[i]
                    new == heap'[s].levels[i]
                    d   == new.currentblockend - old.currentblockend
                    e   == Len(files'[old.outputfile.path]) - Len(files[old.outputfile.path])
                IN  /\ d >= 0
                    /\ d > 0 => d = e * old.blocksize
                    /\ e >= 0

\* C18: in every state of an active pyramid each level's currentblockend is a
\* positive multiple of its blocksize, it changes only by +blocksize per block
\* written, and the level's file holds currentblockend / blocksize - 1 blocks.
C18_BlockEndInvariant == []C18_State /\ [][C18_Step]_vars

\* an Active Summariser that has closed two blocks or more at a level
C18_Witness ==
    /\ pc = "read"
    /\ summariser # 0
    /\ Active(Cur)
    /\ \E i \in LevelIdx :
          /\ Len(Sink(Cur.levels[i])) >= 2
          /\ Cur.levels[i].currentblockend >= 3 * Cur.levels[i].blocksize

\* the level and the file of a Summariser of chromosome c that has the single
\* level of width w, given the Add calls acc and, if fin, finalised
SingleLevel(c, w, acc, fin) ==
    LET obj0 == [chromosome |-> c, lastpos |-> 0 - 1, levels |-> <<NewLevel(c, w)>>]
        r    == AddAll([obj |-> obj0, files |-> OpenForWrite(<<>>, Path(c, w))], acc)
        f    == IF fin THEN Finalise(r.obj, r.files) ELSE r
    IN  [level |-> f.obj.levels[1], file |-> f.files[Path(c, w)]]

\* C19: each level of the Summariser the script holds, and the file of that
\* level, are those of a Summariser that has this level alone and is given
\* the same Add calls.
C19_LevelIndependence ==
    summariser # 0 =>
        \A i \in LevelIdx :
            LET single == SingleLevel(Cur.chromosome, Cur.levels[i].blocksize, Acc,
                                      JustFinalised)
            IN  /\ Cur.levels[i] = single.level
                /\ Sink(Cur.levels[i]) = single.file

\* a finalised Summariser whose two levels hold different numbers of blocks
C19_Witness ==
    /\ JustFinalised
    /\ Len(Acc) >= 2
    /\ Len(Cur.levels) >= 2
    /\ Len(Sink(Cur.levels[1])) >= 3
    /\ Len(Sink(Cur.levels[2])) = 2
    /\ Sink(Cur.levels[2])[1] # ZeroCounts

\* the step is a call of Finalise
FinaliseStep ==
    /\ summariser # 0
    /\ pc = "finalise" \/ (pc = "read" /\ pc' = "done")

\* C20 (as claimed): Finalise appends to each level's file one block, the
\* counts in progress, and like a close advances currentblockend by blocksize
\* and zeroes the counts.
C20_FinaliseAsClose ==
    [][FinaliseStep =>
          \A i \in LevelIdx :
              LET old == heap[summariser].levels[i]
                  new == heap'[summariser].levels[i]
                  p   == old.outputfile.path
              IN  /\ files'[p] = Append(files[p], old.catcounts)
                  /\ new.currentblockend = old.currentblockend + old.blocksize
                  /\ new.catcounts = ZeroCounts]_vars

\* C20 (amended): Finalise appends to each level's file exactly one block, the
\* counts in progress (all-zero if none), and closes the file; it leaves
\* currentblockend and the counts as they are.
C20_FinaliseWritesOnce ==
    [][FinaliseStep =>
          \A i \in LevelIdx :
              LET old == heap[summariser].levels[i]
                  new == heap'[summariser].levels[i]
                  p   == old.outputfile.path
              IN  /\ files'[p] = Append(files[p], old.catcounts)
                  /\ ~old.outputfile.closed
                  /\ new = [old EXCEPT !.outputfile.closed = TRUE]]_vars

\* Finalise has written a last block that spans less than blocksize, at one
\* level with counts and at another all-zero
C20_Witness ==
    /\ JustFinalised
    /\ Len(Acc) >= 1
    /\ \E i \in LevelIdx :
          LET level == Cur.levels[i]
          IN  /\ MaxPosition(Acc) % level.blocksize # level.blocksize - 1
              /\ Sink(level)[Len(Sink(level))] = level.catcounts
              /\ level.catcounts # ZeroCounts
              /\ level.currentblockend = Len(Sink(level)) * level.blocksize

\* the step is a call of Add that raises 'Positions should be strictly ordered'
AddRejected ==
    /\ pc = "add"
    /\ raised' = "Positions should be strictly ordered"

\* C21: a call of Add that raises 'Positions should be strictly ordered'
\* leaves lastpos, the currentblockend and catcounts of every level, and
\* every file as they were.
C21_RejectedAddChangesNothing ==
    [][AddRejected =>
          /\ heap' = heap
          /\ files' = files
          /\ accepted' = accepted]_vars

\* Add has raised on a Summariser that holds counts and has written a block
C21_Witness ==
    /\ pc = "aborted"
    /\ raised = "Positions should be strictly ordered"
    /\ Len(Acc) >= 1
    /\ \E i \in LevelIdx :
          /\ Len(Sink(Cur.levels[i])) >= 1
          /\ Cur.levels[i].catcounts # ZeroCounts

\* C22 (as claimed): whenever the record loop calls Add (line 174), summariser
\* is a Summariser not yet finalised whose chromosome is the record's label,
\* whatever the label and also for the first record.
C22_AddHasActivePyramid ==
    pc = "add" =>
        /\ summariser # 0
        /\ Active(Cur)
        /\ Cur.chromosome = comps.chromosome

\* the database a caller of OpenDatabase names by `database`
Target(database) ==
    IF database = None \/ database = "" THEN config_DB ELSE database

\* the verifier has answered `granted` to credInfo reading database db
Answered(credInfo, db, granted) ==
    [credInfo |-> credInfo,
     operation |-> [operationType |-> DbOperationType.read, databaseName |-> db,
                    tableName |-> None, columnName |-> None],
     granted |-> granted] \in asked

\* with a verifier, every connection OpenDatabase has opened is one whose
\* credentials the verifier has granted to read the target database
C23_Gate ==
    DbCredentialVerifier # None =>
        \A c \in connections :
            c.by = "OpenDatabase" => Answered(c.credInfo, Target(c.database), TRUE)

\* with a verifier, OpenDatabase for credentials the verifier has denied the
\* target database raised CredentialDatabaseException and opened no connection
C23_Denied ==
    DbCredentialVerifier # None =>
        /\ \A r \in results :
             (/\ r.call = "OpenDatabase"
              /\ Answered(r.credInfo, r.operation.databaseName, FALSE))
                => r.result = "CredentialDatabaseException"
        /\ \A c \in connections :
             c.by = "OpenDatabase" => ~Answered(c.credInfo, Target(c.database), FALSE)

\* VerifyCanDo has raised exactly where CanDo has returned False
C23_Agree ==
    \A a \in results, b \in results :
        (/\ a.call = "CanDo"
         /\ b.call = "VerifyCanDo"
         /\ a.credInfo = b.credInfo
         /\ a.operation = b.operation)
            => (b.result = "CredentialDatabaseException" <=> a.result = "False")

\* with no verifier no call has denied an operation
C23_NoVerifier ==
    DbCredentialVerifier = None =>
        \A r \in results : r.result \notin {"False", "CredentialDatabaseException"}

\* C23: with a credential verifier OpenDatabase opens a connection only when
\* the verifier has granted reading the target database (config.DB for None
\* or ''), and raises CredentialDatabaseException without a connection when it
\* has denied; VerifyCanDo raises exactly when CanDo is False; with no
\* verifier every operation is granted.
C23_AuthorizationGate ==
    /\ C23_Gate
    /\ C23_Denied
    /\ C23_Agree
    /\ C23_NoVerifier

\* with a verifier: OpenDatabase has opened config.DB for one user on an empty
\* database name, has raised for another, and CanDo is False for that one
C23_Witness ==
    /\ DbCredentialVerifier # None
    /\ \E c \in connections :
          /\ c.by = "OpenDatabase"
          /\ c.database \in {None, ""}
          /\ c.args.db = config_DB
    /\ \E r \in results, a \in results, b \in results :
          /\ r.call = "OpenDatabase"
          /\ r.result = "CredentialDatabaseException"
          /\ a.call = "CanDo"
          /\ a.result = "False"
          /\ b.call = "VerifyCanDo"
          /\ b.result = "CredentialDatabaseException"
          /\ a.credInfo = r.credInfo /\ a.operation = r.operation
          /\ b.credInfo = r.credInfo /\ b.operation = r.operation

====
